---- MODULE Spec2Model ----
(***************************************************************************)
(* Model of TokenSwapContract (contracts/hello-world/src/lib.rs): one      *)
(* LiquidityPool record kept in instance storage under the key POOL, and   *)
(* the four entry points initialize_pool, swap_a_for_b, swap_b_for_a and   *)
(* view_pool.  The host runs each call as one transaction: a call that     *)
(* panics leaves storage as it was.                                        *)
(*                                                                         *)
(* i128 is modelled as a two's-complement integer of Bits bits.  The crate *)
(* manifest is not part of the sources, so whether the arithmetic is       *)
(* compiled with overflow checks (an overflowing + - * panics) or without  *)
(* (it wraps modulo 2^Bits) is a property of the build, chosen in Init.    *)
(***************************************************************************)
EXTENDS Integers, FiniteSets, Sequences, TLC

\* Width of the modelled i128.  18 bits is the least width in which the
\* test's 100 * 1000 does not overflow.
Bits == 18

\* total_swaps (u64) is only followed up to this many successful swaps.
MaxSwaps == 2

RECURSIVE Pow2(_)
Pow2(n) == IF n = 0 THEN 1 ELSE 2 * Pow2(n - 1)

Modulus == Pow2(Bits)
MaxI == Pow2(Bits - 1) - 1
MinI == 0 - Pow2(Bits - 1)

Abs(x) == IF x < 0 THEN 0 - x ELSE x

\* Two's-complement reduction of x into MinI..MaxI.
Wrap(x) == ((x - MinI) % Modulus) + MinI

InRange(x) == MinI <= x /\ x <= MaxI

\* Result of an arithmetic operation: a value, or a panic.
Val(x) == [ok |-> TRUE, v |-> x]
Panicked == [ok |-> FALSE, v |-> 0]

\* x + y on i128.
Add(x, y, checks) ==
    IF InRange(x + y) THEN Val(x + y)
    ELSE IF checks THEN Panicked ELSE Val(Wrap(x + y))

\* x - y on i128.
Sub(x, y, checks) ==
    IF InRange(x - y) THEN Val(x - y)
    ELSE IF checks THEN Panicked ELSE Val(Wrap(x - y))

\* Whether the exact product x * y lies in MinI..MaxI, decided without
\* forming a product wider than the range.
MulFits(x, y) ==
    IF x = 0 \/ y = 0 THEN TRUE
    ELSE IF (x > 0) = (y > 0) THEN Abs(x) <= MaxI \div Abs(y)
    ELSE Abs(x) <= (0 - MinI) \div Abs(y)

\* (x * y) mod Modulus for x, y in 0..Modulus-1, by binary expansion of y.
RECURSIVE MulMod(_, _)
MulMod(x, y) ==
    IF y = 0 THEN 0
    ELSE ((IF y % 2 = 1 THEN x ELSE 0) + 2 * MulMod(x, y \div 2)) % Modulus

\* x * y on i128.
Mul(x, y, checks) ==
    IF MulFits(x, y) THEN Val(x * y)
    ELSE IF checks THEN Panicked
    ELSE Val(Wrap(MulMod(x % Modulus, y % Modulus)))

\* x / y on i128: truncates toward zero; division by zero and MinI / -1
\* panic in every build.
Div(x, y) ==
    IF y = 0 \/ (x = MinI /\ y = 0 - 1) THEN Panicked
    ELSE IF (x < 0) = (y < 0) THEN Val(Abs(x) \div Abs(y))
    ELSE Val(0 - (Abs(x) \div Abs(y)))

(***************************************************************************)
(* State                                                                   *)
(***************************************************************************)
VARIABLES
    stored,           \* instance storage under POOL: {} or {the record}
    ttl,              \* ledgers the instance entry still has to live
    overflow_checks,  \* the build: TRUE when + - * panic on overflow
    last              \* the most recent call: what it was given and gave

vars == <<stored, ttl, overflow_checks, last>>

\* struct LiquidityPool
LiquidityPool(a, b, n) ==
    [token_a_reserve |-> a, token_b_reserve |-> b, total_swaps |-> n]

\* The default view_pool substitutes for a missing record.
ZeroPool == LiquidityPool(0, 0, 0)

\* extend_ttl(5000, 5000): threshold and extend_to.
TTL_THRESHOLD == 5000
TTL_EXTEND_TO == 5000

\* Ledgers that pass in one CloseLedger step.
LedgerStep == 2500

\* A reserve just above a quarter of the range: twice it overflows.
Big == Pow2(Bits - 2) + 5

\* Amounts a caller passes to initialize_pool.
InitAmounts == {MinI, 0, 1, 1000, Big}

\* Amounts a caller passes to a swap.
SwapAmounts == {0 - 1, 0, 1, 2, 100, MaxI}

\* Option<LiquidityPool>::is_some
is_some(st) == st # {}

\* The value inside a Some.
unwrap(st) == CHOOSE p \in st : TRUE

\* storage().instance().extend_ttl(threshold, extend_to): an entry with
\* fewer than threshold ledgers left lives for extend_to ledgers.
extend_ttl(t, threshold, extend_to) ==
    IF t < threshold THEN extend_to ELSE t

\* What a call gives back: its outcome, the value returned (0 when there
\* is none) and the storage and ttl it leaves.
Result(outcome, ret, st, t) ==
    [outcome |-> outcome, ret |-> ret, stored |-> st, ttl |-> t]

\* fn view_pool: get(&POOL).unwrap_or(zero record).
view_pool(st) == IF is_some(st) THEN unwrap(st) ELSE ZeroPool

\* Variant of initialize_pool that stores the two amounts the wrong way round.
initialize_pool_reserves_crossed(st, t, token_a_amount, token_b_amount) ==
    IF is_some(st) THEN Result("AlreadyInitialized", 0, st, t)
    ELSE IF token_a_amount <= 0 \/ token_b_amount <= 0
    THEN Result("InvalidAmount", 0, st, t)
    ELSE Result("ok", 0,
                {LiquidityPool(token_b_amount, token_a_amount, 0)},
                extend_ttl(t, TTL_THRESHOLD, TTL_EXTEND_TO))

\* Variant of initialize_pool that checks the amounts before the record.
initialize_pool_amounts_first(st, t, token_a_amount, token_b_amount) ==
    IF token_a_amount <= 0 \/ token_b_amount <= 0
    THEN Result("InvalidAmount", 0, st, t)
    ELSE IF is_some(st) THEN Result("AlreadyInitialized", 0, st, t)
    ELSE Result("ok", 0,
                {LiquidityPool(token_a_amount, token_b_amount, 0)},
                extend_ttl(t, TTL_THRESHOLD, TTL_EXTEND_TO))

\* Variant of initialize_pool that rejects only when both amounts are <= 0.
initialize_pool_both_nonpositive(st, t, token_a_amount, token_b_amount) ==
    IF is_some(st) THEN Result("AlreadyInitialized", 0, st, t)
    ELSE IF token_a_amount <= 0 /\ token_b_amount <= 0
    THEN Result("InvalidAmount", 0, st, t)
    ELSE Result("ok", 0,
                {LiquidityPool(token_a_amount, token_b_amount, 0)},
                extend_ttl(t, TTL_THRESHOLD, TTL_EXTEND_TO))

\* fn initialize_pool
initialize_pool(st, t, token_a_amount, token_b_amount) ==
    IF is_some(st) THEN Result("AlreadyInitialized", 0, st, t)
    ELSE IF token_a_amount <= 0 \/ token_b_amount <= 0
    THEN Result("InvalidAmount", 0, st, t)
    ELSE Result("ok", 0,
                {LiquidityPool(token_a_amount, token_b_amount, 0)},
                extend_ttl(t, TTL_THRESHOLD, TTL_EXTEND_TO))

\* amount_b_out of swap_a_for_b: (amount_a_in * b) / (a + amount_a_in).
amount_b_out(pool, amount_a_in, checks) ==
    LET prod == Mul(amount_a_in, pool.token_b_reserve, checks)
        sum  == Add(pool.token_a_reserve, amount_a_in, checks)
    IN  IF prod.ok /\ sum.ok THEN Div(prod.v, sum.v) ELSE Panicked

\* Variant of swap_a_for_b that looks at the pool before the amount.
swap_a_for_b_pool_first(st, t, amount_a_in, checks) ==
    LET pool == view_pool(st) IN
    IF pool.token_a_reserve = 0 \/ pool.token_b_reserve = 0
    THEN Result("PoolNotInitialized", 0, st, t)
    ELSE IF amount_a_in <= 0 THEN Result("InvalidAmount", 0, st, t)
    ELSE LET out  == amount_b_out(pool, amount_a_in, checks)
             newa == Add(pool.token_a_reserve, amount_a_in, checks)
             newb == Sub(pool.token_b_reserve, out.v, checks)
         IN  IF out.ok /\ newa.ok /\ newb.ok
             THEN Result("ok", out.v,
                         {LiquidityPool(newa.v, newb.v, pool.total_swaps + 1)},
                         extend_ttl(t, TTL_THRESHOLD, TTL_EXTEND_TO))
             ELSE Result("ArithmeticPanic", 0, st, t)

\* Variant of swap_a_for_b that refuses a swap whose output is 0.
swap_a_for_b_rejects_zero_output(st, t, amount_a_in, checks) ==
    IF amount_a_in <= 0 THEN Result("InvalidAmount", 0, st, t)
    ELSE LET pool == view_pool(st) IN
    IF pool.token_a_reserve = 0 \/ pool.token_b_reserve = 0
    THEN Result("PoolNotInitialized", 0, st, t)
    ELSE LET out  == amount_b_out(pool, amount_a_in, checks)
             newa == Add(pool.token_a_reserve, amount_a_in, checks)
             newb == Sub(pool.token_b_reserve, out.v, checks)
         IN  IF out.ok /\ newa.ok /\ newb.ok /\ out.v # 0
             THEN Result("ok", out.v,
                         {LiquidityPool(newa.v, newb.v, pool.total_swaps + 1)},
                         extend_ttl(t, TTL_THRESHOLD, TTL_EXTEND_TO))
             ELSE Result("ArithmeticPanic", 0, st, t)

\* Variant of swap_a_for_b that writes the record without extend_ttl.
swap_a_for_b_no_renew(st, t, amount_a_in, checks) ==
    IF amount_a_in <= 0 THEN Result("InvalidAmount", 0, st, t)
    ELSE LET pool == view_pool(st) IN
    IF pool.token_a_reserve = 0 \/ pool.token_b_reserve = 0
    THEN Result("PoolNotInitialized", 0, st, t)
    ELSE LET out  == amount_b_out(pool, amount_a_in, checks)
             newa == Add(pool.token_a_reserve, amount_a_in, checks)
             newb == Sub(pool.token_b_reserve, out.v, checks)
         IN  IF out.ok /\ newa.ok /\ newb.ok
             THEN Result("ok", out.v,
                         {LiquidityPool(newa.v, newb.v, pool.total_swaps + 1)},
                         t)
             ELSE Result("ArithmeticPanic", 0, st, t)

\* fn swap_a_for_b
swap_a_for_b(st, t, amount_a_in, checks) ==
    IF amount_a_in <= 0 THEN Result("InvalidAmount", 0, st, t)
    ELSE LET pool == view_pool(st) IN
    IF pool.token_a_reserve = 0 \/ pool.token_b_reserve = 0
    THEN Result("PoolNotInitialized", 0, st, t)
    ELSE LET out  == amount_b_out(pool, amount_a_in, checks)
             newa == Add(pool.token_a_reserve, amount_a_in, checks)
             newb == Sub(pool.token_b_reserve, out.v, checks)
         IN  IF out.ok /\ newa.ok /\ newb.ok
             THEN Result("ok", out.v,
                         {LiquidityPool(newa.v, newb.v, pool.total_swaps + 1)},
                         extend_ttl(t, TTL_THRESHOLD, TTL_EXTEND_TO))
             ELSE Result("ArithmeticPanic", 0, st, t)

\* Variant of amount_a_out that rounds the quotient up.
amount_a_out_rounded_up(pool, amount_b_in, checks) ==
    LET prod == Mul(amount_b_in, pool.token_a_reserve, checks)
        sum  == Add(pool.token_b_reserve, amount_b_in, checks)
        q    == IF prod.ok /\ sum.ok THEN Div(prod.v, sum.v) ELSE Panicked
    IN  IF q.ok /\ prod.v > 0 /\ sum.v > 0 /\ prod.v % sum.v # 0
        THEN Val(q.v + 1) ELSE q

\* Variant of amount_a_out that divides by the reserve without the input.
amount_a_out_without_input(pool, amount_b_in, checks) ==
    LET prod == Mul(amount_b_in, pool.token_a_reserve, checks)
    IN  IF prod.ok THEN Div(prod.v, pool.token_b_reserve) ELSE Panicked

\* amount_a_out of swap_b_for_a: (amount_b_in * a) / (b + amount_b_in).
amount_a_out(pool, amount_b_in, checks) ==
    LET prod == Mul(amount_b_in, pool.token_a_reserve, checks)
        sum  == Add(pool.token_b_reserve, amount_b_in, checks)
    IN  IF prod.ok /\ sum.ok THEN Div(prod.v, sum.v) ELSE Panicked

\* Variant of swap_b_for_a without the zero-reserve check.
swap_b_for_a_unguarded(st, t, amount_b_in, checks) ==
    IF amount_b_in <= 0 THEN Result("InvalidAmount", 0, st, t)
    ELSE LET pool == view_pool(st)
             out  == amount_a_out(pool, amount_b_in, checks)
             newb == Add(pool.token_b_reserve, amount_b_in, checks)
             newa == Sub(pool.token_a_reserve, out.v, checks)
         IN  IF out.ok /\ newa.ok /\ newb.ok
             THEN Result("ok", out.v,
                         {LiquidityPool(newa.v, newb.v, pool.total_swaps + 1)},
                         extend_ttl(t, TTL_THRESHOLD, TTL_EXTEND_TO))
             ELSE Result("ArithmeticPanic", 0, st, t)

\* Variant of swap_b_for_a that does not count the swap.
swap_b_for_a_uncounted(st, t, amount_b_in, checks) ==
    IF amount_b_in <= 0 THEN Result("InvalidAmount", 0, st, t)
    ELSE LET pool == view_pool(st) IN
    IF pool.token_a_reserve = 0 \/ pool.token_b_reserve = 0
    THEN Result("PoolNotInitialized", 0, st, t)
    ELSE LET out  == amount_a_out(pool, amount_b_in, checks)
             newb == Add(pool.token_b_reserve, amount_b_in, checks)
             newa == Sub(pool.token_a_reserve, out.v, checks)
         IN  IF out.ok /\ newa.ok /\ newb.ok
             THEN Result("ok", out.v,
                         {LiquidityPool(newa.v, newb.v, pool.total_swaps)},
                         extend_ttl(t, TTL_THRESHOLD, TTL_EXTEND_TO))
             ELSE Result("ArithmeticPanic", 0, st, t)

\* fn swap_b_for_a
swap_b_for_a(st, t, amount_b_in, checks) ==
    IF amount_b_in <= 0 THEN Result("InvalidAmount", 0, st, t)
    ELSE LET pool == view_pool(st) IN
    IF pool.token_a_reserve = 0 \/ pool.token_b_reserve = 0
    THEN Result("PoolNotInitialized", 0, st, t)
    ELSE LET out  == amount_a_out(pool, amount_b_in, checks)
             newb == Add(pool.token_b_reserve, amount_b_in, checks)
             newa == Sub(pool.token_a_reserve, out.v, checks)
         IN  IF out.ok /\ newa.ok /\ newb.ok
             THEN Result("ok", out.v,
                         {LiquidityPool(newa.v, newb.v, pool.total_swaps + 1)},
                         extend_ttl(t, TTL_THRESHOLD, TTL_EXTEND_TO))
             ELSE Result("ArithmeticPanic", 0, st, t)

(***************************************************************************)
(* Calls.  last records the call: its name, its arguments (0 for a missing *)
(* one), the storage it found, its outcome, the i128 it returned, for      *)
(* view_pool the record it returned, and the swap right before it.         *)
(***************************************************************************)
\* No swap came right before.
NoSwapBefore == [op |-> "none", a1 |-> 0, ret |-> 0, pre |-> {}]

\* The successful swap that the successful swap now recorded follows
\* directly, if there is one: its name, amount, output and the storage it
\* found.
SwapBefore(op, r) ==
    IF op \in {"swap_a_for_b", "swap_b_for_a"} /\ r.outcome = "ok"
       /\ last.op \in {"swap_a_for_b", "swap_b_for_a"} /\ last.outcome = "ok"
    THEN [op |-> last.op, a1 |-> last.a1, ret |-> last.ret, pre |-> last.pre]
    ELSE NoSwapBefore

Call(op, a1, a2, r, view) ==
    [op |-> op, a1 |-> a1, a2 |-> a2, pre |-> stored,
     outcome |-> r.outcome, ret |-> r.ret, view |-> view,
     before |-> SwapBefore(op, r)]

NoCall ==
    [op |-> "none", a1 |-> 0, a2 |-> 0, pre |-> {},
     outcome |-> "none", ret |-> 0, view |-> ZeroPool,
     before |-> NoSwapBefore]

\* The amount the caller has just received from a successful swap, which
\* it may pass to the next swap.
ReceivedAmount ==
    IF last.op \in {"swap_a_for_b", "swap_b_for_a"} /\ last.outcome = "ok"
    THEN {last.ret} ELSE {}

Init ==
    /\ stored = {}
    /\ ttl \in {LedgerStep, 3 * LedgerStep}
    /\ overflow_checks \in BOOLEAN
    /\ last = NoCall

InitializePool ==
    \E a \in InitAmounts, b \in InitAmounts :
        LET r == initialize_pool(stored, ttl, a, b) IN
        /\ stored' = r.stored
        /\ ttl' = r.ttl
        /\ last' = Call("initialize_pool", a, b, r, ZeroPool)
        /\ UNCHANGED overflow_checks

\* A swap is followed while the record has seen fewer than MaxSwaps swaps.
SwapAForB ==
    /\ view_pool(stored).total_swaps < MaxSwaps
    /\ \E n \in SwapAmounts \cup ReceivedAmount :
        LET r == swap_a_for_b(stored, ttl, n, overflow_checks) IN
        /\ stored' = r.stored
        /\ ttl' = r.ttl
        /\ last' = Call("swap_a_for_b", n, 0, r, ZeroPool)
        /\ UNCHANGED overflow_checks

SwapBForA ==
    /\ view_pool(stored).total_swaps < MaxSwaps
    /\ \E n \in SwapAmounts \cup ReceivedAmount :
        LET r == swap_b_for_a(stored, ttl, n, overflow_checks) IN
        /\ stored' = r.stored
        /\ ttl' = r.ttl
        /\ last' = Call("swap_b_for_a", n, 0, r, ZeroPool)
        /\ UNCHANGED overflow_checks

\* Variant of ViewPool that stores the record it returns.
ViewPoolStoresDefault ==
    /\ last' = Call("view_pool", 0, 0, Result("ok", 0, stored, ttl),
                    view_pool(stored))
    /\ stored' = {view_pool(stored)}
    /\ UNCHANGED <<ttl, overflow_checks>>

ViewPool ==
    /\ last' = Call("view_pool", 0, 0, Result("ok", 0, stored, ttl),
                    view_pool(stored))
    /\ UNCHANGED <<stored, ttl, overflow_checks>>

\* The network closes ledgers: the entry's remaining life shrinks.  The
\* instance is followed while it stays live.
CloseLedger ==
    /\ ttl > LedgerStep
    /\ ttl' = ttl - LedgerStep
    /\ UNCHANGED <<stored, overflow_checks, last>>

Next ==
    \/ InitializePool
    \/ SwapAForB
    \/ SwapBForA
    \/ ViewPool
    \/ CloseLedger

Spec == Init /\ [][Next]_vars

(***************************************************************************)
(* Vocabulary of the properties                                            *)
(***************************************************************************)
\* The pool is Active: the record is present and both reserves are > 0.
Active(st) ==
    /\ is_some(st)
    /\ unwrap(st).token_a_reserve > 0
    /\ unwrap(st).token_b_reserve > 0

Swaps == {"swap_a_for_b", "swap_b_for_a"}

\* Quotient q and remainder r of the exact product x * y by d, for x >= 0,
\* y >= 0, d > 0, by binary expansion of y (no intermediate above 3 * d + x).
RECURSIVE MulDivMod(_, _, _)
MulDivMod(x, y, d) ==
    IF y = 0 THEN [q |-> 0, r |-> 0]
    ELSE LET h == MulDivMod(x, y \div 2, d)
             t == 2 * h.r + (IF y % 2 = 1 THEN x ELSE 0)
         IN  [q |-> 2 * h.q + t \div d, r |-> t % d]

\* floor(x * y / d) over the integers.
FloorMulDiv(x, y, d) == MulDivMod(x, y, d).q

\* a * b >= c * d over the integers, for c > 0 and d > 0.
ProductGeq(a, b, c, d) ==
    /\ (a > 0 /\ b > 0) \/ (a < 0 /\ b < 0)
    /\ LET p == MulDivMod(Abs(a), Abs(b), Modulus)
           q == MulDivMod(c, d, Modulus)
       IN  p.q > q.q \/ (p.q = q.q /\ p.r >= q.r)

Pre == unwrap(last.pre)
Post == unwrap(stored)

(***************************************************************************)
(* C1.  For every Active pool and every amount_in > 0, swap_a_for_b        *)
(* succeeds, returns amount_out with 0 <= amount_out < token_b_reserve     *)
(* before the call, and leaves token_a_reserve + amount_in,                *)
(* token_b_reserve - amount_out and total_swaps + 1.                       *)
(***************************************************************************)
C1_SwapAForBAlwaysSucceeds ==
    (last.op = "swap_a_for_b" /\ Active(last.pre) /\ last.a1 > 0) =>
        /\ last.outcome = "ok"
        /\ 0 <= last.ret
        /\ last.ret < Pre.token_b_reserve
        /\ stored = {LiquidityPool(Pre.token_a_reserve + last.a1,
                                   Pre.token_b_reserve - last.ret,
                                   Pre.total_swaps + 1)}

(***************************************************************************)
(* C2.  A successful swap_a_for_b(amount_a_in) returns                     *)
(* floor(amount_a_in * token_b_reserve / (token_a_reserve + amount_a_in))  *)
(* of the reserves before the call; after initialize_pool(1000, 1000),     *)
(* swap_a_for_b(100) returns 90 and leaves {1100, 910, 1}.                 *)
(***************************************************************************)
C2_SwapAForBReturnsFloor ==
    (last.op = "swap_a_for_b" /\ last.outcome = "ok" /\ Active(last.pre)) =>
        /\ last.ret = FloorMulDiv(last.a1, Pre.token_b_reserve,
                                  Pre.token_a_reserve + last.a1)
        /\ (last.pre = {LiquidityPool(1000, 1000, 0)} /\ last.a1 = 100) =>
              /\ last.ret = 90
              /\ view_pool(stored) = LiquidityPool(1100, 910, 1)

(***************************************************************************)
(* C3.  swap_b_for_a mirrors swap_a_for_b: on every Active pool and every  *)
(* amount_b_in > 0 it returns                                              *)
(* floor(amount_b_in * token_a_reserve / (token_b_reserve + amount_b_in)), *)
(* adds amount_b_in to token_b_reserve, takes the output from              *)
(* token_a_reserve and adds 1 to total_swaps; and on the pool with the two *)
(* reserves exchanged it gives the output and the exchanged post-state of  *)
(* swap_a_for_b on the pool itself.                                        *)
(***************************************************************************)
Exchanged(st) ==
    {LiquidityPool(p.token_b_reserve, p.token_a_reserve, p.total_swaps) :
        p \in st}

ExchangedResult(r) == Result(r.outcome, r.ret, Exchanged(r.stored), r.ttl)

MirrorsSwapAForB ==
    \A n \in SwapAmounts :
        swap_b_for_a(Exchanged(stored), ttl, n, overflow_checks)
            = ExchangedResult(swap_a_for_b(stored, ttl, n, overflow_checks))

C3_SwapBForAIsTheMirror ==
    /\ (last.op = "swap_b_for_a" /\ Active(last.pre) /\ last.a1 > 0) =>
          /\ last.outcome = "ok"
          /\ last.ret = FloorMulDiv(last.a1, Pre.token_a_reserve,
                                    Pre.token_b_reserve + last.a1)
          /\ stored = {LiquidityPool(Pre.token_a_reserve - last.ret,
                                     Pre.token_b_reserve + last.a1,
                                     Pre.total_swaps + 1)}
    /\ Active(stored) => MirrorsSwapAForB

\* The step is a call (it left a new record of itself in last).
IsCall == last' # last

\* The step is a call that failed.
IsFailedCall == IsCall /\ last'.outcome # "ok"

(***************************************************************************)
(* C4.  With no record stored, initialize_pool(a0, b0) with a0 > 0 and     *)
(* b0 > 0 succeeds, and the next view_pool returns exactly {a0, b0, 0}.    *)
(***************************************************************************)
C4_InitializeStores ==
    (last.op = "initialize_pool" /\ last.pre = {}
        /\ last.a1 > 0 /\ last.a2 > 0) =>
        /\ last.outcome = "ok"
        /\ stored = {LiquidityPool(last.a1, last.a2, 0)}

C4_ViewAfterInitialize ==
    (last.op = "initialize_pool" /\ last.outcome = "ok"
        /\ last'.op = "view_pool") =>
        /\ last'.outcome = "ok"
        /\ last'.view = LiquidityPool(last.a1, last.a2, 0)

C4_InitializeThenView ==
    []C4_InitializeStores /\ [][C4_ViewAfterInitialize]_vars

C4_Witness ==
    /\ last.op = "view_pool"
    /\ last.view = LiquidityPool(1000, Big, 0)

(***************************************************************************)
(* C5.  Once a record exists, initialize_pool fails with                   *)
(* AlreadyInitialized whatever its arguments (non-positive ones included)  *)
(* and leaves the record as it was; initialize_pool succeeds at most once. *)
(***************************************************************************)
C5_ReinitializeRejected ==
    /\ (last.op = "initialize_pool" /\ is_some(last.pre)) =>
          /\ last.outcome = "AlreadyInitialized"
          /\ stored = last.pre
    /\ (last.op = "initialize_pool" /\ last.outcome = "ok") => last.pre = {}

C5_NoSecondInitialize ==
    is_some(stored) =>
        /\ is_some(stored')
        /\ ~(IsCall /\ last'.op = "initialize_pool" /\ last'.outcome = "ok")
        /\ (IsCall /\ last'.op = "initialize_pool") => stored' = stored

C5_InitializeAtMostOnce ==
    []C5_ReinitializeRejected /\ [][C5_NoSecondInitialize]_vars

C5_Witness ==
    /\ last.op = "initialize_pool"
    /\ last.outcome = "AlreadyInitialized"
    /\ last.a1 <= 0
    /\ is_some(stored)
    /\ Post.total_swaps > 0

(***************************************************************************)
(* C6.  With no record stored, initialize_pool(x, y) with x <= 0 or y <= 0 *)
(* fails with InvalidAmount and creates no record: view_pool still returns *)
(* {0, 0, 0} and a following initialize_pool with positive amounts         *)
(* succeeds.                                                               *)
(***************************************************************************)
C6_NonPositiveRejected ==
    (last.op = "initialize_pool" /\ last.pre = {}
        /\ (last.a1 <= 0 \/ last.a2 <= 0)) =>
        /\ last.outcome = "InvalidAmount"
        /\ stored = {}
        /\ view_pool(stored) = ZeroPool

C6_AfterRejection ==
    (last.op = "initialize_pool" /\ last.outcome = "InvalidAmount") =>
        /\ IsFailedCall => UNCHANGED <<stored, ttl>>
        /\ last'.op = "view_pool" => last'.view = ZeroPool
        /\ (IsCall /\ last'.op = "initialize_pool"
               /\ last'.a1 > 0 /\ last'.a2 > 0) =>
              /\ last'.outcome = "ok"
              /\ stored' = {LiquidityPool(last'.a1, last'.a2, 0)}

C6_InvalidInitializeCreatesNothing ==
    []C6_NonPositiveRejected /\ [][C6_AfterRejection]_vars

C6_Witness ==
    /\ last.op = "initialize_pool"
    /\ last.outcome = "InvalidAmount"
    /\ last.a1 > 0
    /\ last.a2 = 0
    /\ stored = {}

(***************************************************************************)
(* C7.  With no record stored, swap_a_for_b(n) and swap_b_for_a(n) with    *)
(* n > 0 fail with PoolNotInitialized and change nothing: no record is     *)
(* created and view_pool still returns {0, 0, 0}.                          *)
(***************************************************************************)
C7_SwapWithoutPoolRejected ==
    (last.op \in Swaps /\ last.pre = {} /\ last.a1 > 0) =>
        /\ last.outcome = "PoolNotInitialized"
        /\ stored = {}
        /\ view_pool(stored) = ZeroPool

C7_SwapWithoutPoolStep ==
    (IsCall /\ last'.op \in Swaps /\ stored = {}) =>
        UNCHANGED <<stored, ttl>>

C7_SwapOnUninitializedPool ==
    []C7_SwapWithoutPoolRejected /\ [][C7_SwapWithoutPoolStep]_vars

C7_Witness ==
    /\ last.op = "swap_b_for_a"
    /\ last.pre = {}
    /\ last.a1 > 0
    /\ last.outcome = "PoolNotInitialized"
    /\ stored = {}

(***************************************************************************)
(* C8.  In every state, record present or not, swap_a_for_b(n) and         *)
(* swap_b_for_a(n) with n <= 0 fail with InvalidAmount (the amount is      *)
(* checked before the pool) and leave the record, its presence and its     *)
(* fields as they were.                                                    *)
(***************************************************************************)
C8_NonPositiveSwapRejected ==
    (last.op \in Swaps /\ last.a1 <= 0) =>
        /\ last.outcome = "InvalidAmount"
        /\ stored = last.pre

C8_NonPositiveSwapStep ==
    (IsCall /\ last'.op \in Swaps /\ last'.a1 <= 0) =>
        UNCHANGED <<stored, ttl>>

C8_InvalidSwapAmount ==
    []C8_NonPositiveSwapRejected /\ [][C8_NonPositiveSwapStep]_vars

C8_Witness ==
    /\ last.op = "swap_a_for_b"
    /\ last.a1 <= 0
    /\ last.pre = {}
    /\ last.outcome = "InvalidAmount"

(***************************************************************************)
(* C9.  In every reachable state, if the record exists then                *)
(* token_a_reserve > 0 and token_b_reserve > 0: no sequence of swaps       *)
(* drains a reserve to zero or below, and an Active pool stays Active.     *)
(***************************************************************************)
C9_ReservesStayPositive == is_some(stored) => Active(stored)

(***************************************************************************)
(* C10.  After every successful swap the product token_a_reserve *         *)
(* token_b_reserve is at least what it was before the swap.                *)
(***************************************************************************)
C10_ProductNeverDecreases ==
    (last.op \in Swaps /\ last.outcome = "ok" /\ Active(last.pre)) =>
        ProductGeq(Post.token_a_reserve, Post.token_b_reserve,
                   Pre.token_a_reserve, Pre.token_b_reserve)

(***************************************************************************)
(* C11.  total_swaps never decreases: it is 0 right after a successful     *)
(* initialize_pool, grows by exactly 1 with each successful swap_a_for_b   *)
(* or swap_b_for_a, and is left alone by view_pool and by every failed     *)
(* call, so it counts the successful swaps since initialization.           *)
(***************************************************************************)
IsSuccessfulSwap == IsCall /\ last'.op \in Swaps /\ last'.outcome = "ok"

C11_CountAfterCall ==
    /\ (last.op = "initialize_pool" /\ last.outcome = "ok") =>
          view_pool(stored).total_swaps = 0
    /\ (last.op \in Swaps /\ last.outcome = "ok") =>
          Post.total_swaps = Pre.total_swaps + 1
    /\ (last.op = "view_pool" \/ last.outcome # "ok") =>
          view_pool(stored).total_swaps = view_pool(last.pre).total_swaps

C11_CountStep ==
    view_pool(stored').total_swaps =
        view_pool(stored).total_swaps + (IF IsSuccessfulSwap THEN 1 ELSE 0)

C11_TotalSwapsCountsSwaps ==
    []C11_CountAfterCall /\ [][C11_CountStep]_vars

C11_Witness ==
    /\ last.op = "swap_b_for_a"
    /\ last.outcome = "ok"
    /\ Pre.total_swaps = 1
    /\ Post.total_swaps = 2

(***************************************************************************)
(* C12.  view_pool never fails and only reads: it returns the stored       *)
(* record, or {0, 0, 0} when there is none, and leaves the record, its     *)
(* presence or absence and its expiration horizon as they were.            *)
(***************************************************************************)
C12_ViewReturnsRecord ==
    last.op = "view_pool" =>
        /\ last.outcome = "ok"
        /\ last.view = (IF last.pre = {} THEN ZeroPool ELSE Pre)
        /\ stored = last.pre

C12_ViewStep ==
    (IsCall /\ last'.op = "view_pool") => UNCHANGED <<stored, ttl>>

C12_ViewPoolIsReadOnly ==
    []C12_ViewReturnsRecord /\ [][C12_ViewStep]_vars

C12_Witness ==
    /\ last.op = "view_pool"
    /\ last.pre = {}
    /\ last.view = ZeroPool
    /\ stored = {}
    /\ ttl < TTL_THRESHOLD

(***************************************************************************)
(* Round trips: the call in last is a successful swap_b_for_a of exactly   *)
(* the amount m > 0 that the successful swap_a_for_b(n) right before it    *)
(* returned on an Active pool (RoundTripAB), or the same with the two      *)
(* swaps exchanged (RoundTripBA).  Start is the record the first swap      *)
(* found.                                                                  *)
(***************************************************************************)
Start == unwrap(last.before.pre)

RoundTripAB ==
    /\ last.op = "swap_b_for_a"
    /\ last.outcome = "ok"
    /\ last.before.op = "swap_a_for_b"
    /\ Active(last.before.pre)
    /\ last.before.ret > 0
    /\ last.a1 = last.before.ret

RoundTripBA ==
    /\ last.op = "swap_a_for_b"
    /\ last.outcome = "ok"
    /\ last.before.op = "swap_b_for_a"
    /\ Active(last.before.pre)
    /\ last.before.ret > 0
    /\ last.a1 = last.before.ret

\* n * b is an exact multiple of a + n: the first swap rounded nothing off.
FirstSwapExact ==
    MulDivMod(last.before.a1, Start.token_b_reserve,
              Start.token_a_reserve + last.before.a1).r = 0

(***************************************************************************)
(* C13.  On an Active pool, swap_a_for_b(n) returning m > 0 followed by    *)
(* swap_b_for_a(m) does not bring the reserves back to where they started: *)
(* the pair (token_a_reserve, token_b_reserve) after the round trip        *)
(* differs from the pair before it.                                        *)
(***************************************************************************)
C13_RoundTripMovesReserves ==
    RoundTripAB =>
        <<Post.token_a_reserve, Post.token_b_reserve>>
            # <<Start.token_a_reserve, Start.token_b_reserve>>

\* C13 as amended: the pair differs unless the first swap rounded nothing
\* off; token_b_reserve is back at its start in either case.
C13_RoundTripMovesReservesUnlessExact ==
    RoundTripAB =>
        /\ ~FirstSwapExact =>
              <<Post.token_a_reserve, Post.token_b_reserve>>
                  # <<Start.token_a_reserve, Start.token_b_reserve>>
        /\ Post.token_b_reserve = Start.token_b_reserve

C13_Witness ==
    /\ RoundTripAB
    /\ ~FirstSwapExact
    /\ Post.token_a_reserve > Start.token_a_reserve

(***************************************************************************)
(* C14.  A swap defends against overflow of the i128 multiplication: on an *)
(* Active pool, when amount_in * reserve_out exceeds the i128 range, the   *)
(* swap either returns the exact floor quotient or fails and leaves the    *)
(* state as it was; it never returns or stores a value derived from the    *)
(* wrapped product.                                                        *)
(***************************************************************************)
\* The reserve the call in last pays out of, and the one it pays into.
ReserveOut ==
    IF last.op = "swap_a_for_b" THEN Pre.token_b_reserve
    ELSE Pre.token_a_reserve

ReserveIn ==
    IF last.op = "swap_a_for_b" THEN Pre.token_a_reserve
    ELSE Pre.token_b_reserve

ExactPost ==
    IF last.op = "swap_a_for_b"
    THEN LiquidityPool(ReserveIn + last.a1, ReserveOut - last.ret,
                       Pre.total_swaps + 1)
    ELSE LiquidityPool(ReserveOut - last.ret, ReserveIn + last.a1,
                       Pre.total_swaps + 1)

C14_OverflowIsDefended ==
    (last.op \in Swaps /\ Active(last.pre) /\ last.a1 > 0
        /\ ~MulFits(last.a1, ReserveOut)) =>
        \/ /\ last.outcome = "ok"
           /\ last.ret = FloorMulDiv(last.a1, ReserveOut, ReserveIn + last.a1)
           /\ stored = {ExactPost}
        \/ /\ last.outcome # "ok"
           /\ stored = last.pre

(***************************************************************************)
(* C15.  A swap_a_for_b whose floor output is 0 (amount_a_in *             *)
(* token_b_reserve < token_a_reserve + amount_a_in on an Active pool) is a *)
(* successful call: it returns 0, adds amount_a_in to token_a_reserve,     *)
(* leaves token_b_reserve alone and adds 1 to total_swaps.                 *)
(***************************************************************************)
ZeroOutputSwap ==
    /\ last.op = "swap_a_for_b"
    /\ Active(last.pre)
    /\ last.a1 > 0
    /\ FloorMulDiv(last.a1, Pre.token_b_reserve,
                   Pre.token_a_reserve + last.a1) = 0

ZeroOutputSwapSucceeded ==
    /\ last.outcome = "ok"
    /\ last.ret = 0
    /\ stored = {LiquidityPool(Pre.token_a_reserve + last.a1,
                               Pre.token_b_reserve,
                               Pre.total_swaps + 1)}

C15_ZeroOutputSwapSucceeds == ZeroOutputSwap => ZeroOutputSwapSucceeded

\* C15 as amended: the same, for the amounts whose sum with token_a_reserve
\* is an i128.
C15_ZeroOutputSwapSucceedsInRange ==
    (ZeroOutputSwap /\ InRange(Pre.token_a_reserve + last.a1)) =>
        ZeroOutputSwapSucceeded

C15_Witness ==
    /\ ZeroOutputSwap
    /\ last.outcome = "ok"
    /\ last.ret = 0
    /\ Post.token_a_reserve = Pre.token_a_reserve + last.a1
    /\ Post.total_swaps = 2

(***************************************************************************)
(* C16.  Write implies renew: every successful initialize_pool,            *)
(* swap_a_for_b and swap_b_for_a extends the expiration horizon to the     *)
(* fixed horizon (5000) in the step that writes the record; failed calls   *)
(* and view_pool renew nothing.                                            *)
(***************************************************************************)
IsSuccessfulWrite == IsCall /\ last'.op # "view_pool" /\ last'.outcome = "ok"

C16_RenewStep ==
    /\ IsSuccessfulWrite =>
          /\ ttl' >= TTL_EXTEND_TO
          /\ ttl' = (IF ttl < TTL_THRESHOLD THEN TTL_EXTEND_TO ELSE ttl)
    /\ stored' # stored => IsSuccessfulWrite
    /\ (IsCall /\ ~IsSuccessfulWrite) => UNCHANGED <<stored, ttl>>
    /\ ttl' > ttl => IsSuccessfulWrite

C16_WriteImpliesRenew == [][C16_RenewStep]_vars

C16_Witness ==
    /\ last.op = "swap_a_for_b"
    /\ last.outcome = "ok"
    /\ Pre.total_swaps = 1
    /\ ttl = TTL_EXTEND_TO

(***************************************************************************)
(* C17.  A round trip never pays: after swap_a_for_b(n) returned m > 0 on  *)
(* an Active pool, the swap_b_for_a(m) that follows returns at most n, and *)
(* the same with the two swaps exchanged.                                  *)
(***************************************************************************)
C17_RoundTripNeverPays ==
    (RoundTripAB \/ RoundTripBA) => last.ret <= last.before.a1

C17_Witness ==
    /\ RoundTripAB
    /\ last.ret > 0
    /\ last.ret < last.before.a1

(***************************************************************************)
(* C18.  Splitting a swap never pays more: on an Active pool, the outputs  *)
(* of swap_a_for_b(n1) followed by swap_a_for_b(n2) add up to at most the  *)
(* output of one swap_a_for_b(n1 + n2) from the same state, and            *)
(* token_a_reserve ends the same in both runs.                             *)
(***************************************************************************)
SplitSwap ==
    /\ last.op = "swap_a_for_b"
    /\ last.outcome = "ok"
    /\ last.before.op = "swap_a_for_b"
    /\ Active(last.before.pre)
    /\ InRange(last.before.a1 + last.a1)

\* The one swap of n1 + n2 on the record the split found.
SingleSwap ==
    swap_a_for_b(last.before.pre, ttl, last.before.a1 + last.a1,
                 overflow_checks)

C18_SplittingNeverPays ==
    (SplitSwap /\ SingleSwap.outcome = "ok") =>
        /\ last.before.ret + last.ret <= SingleSwap.ret
        /\ Post.token_a_reserve = unwrap(SingleSwap.stored).token_a_reserve

====
